---- MODULE Spec2Model ----
(***************************************************************************)
(* The key model of packages/matter.js/src/crypto/Key.ts: the Key()        *)
(* factory, its alias and importer accessors, and the factory variants.    *)
(*                                                                         *)
(* A key is a function from the base JWK field names to values.  A string  *)
(* field holds a string, or "undefined" for the JavaScript value           *)
(* undefined.  The base64 fields d, x, y and k hold a string written as    *)
(* the sequence of its characters, each character given by its index in    *)
(* the base64url alphabet (0..63, 64 for the padding character), or        *)
(* <<-1>> for undefined.  A ByteArray is a sequence of 0..255, <<-1>> for  *)
(* undefined and <<-2>> for the boolean false a binary getter returns.     *)
(***************************************************************************)
EXTENDS Integers, Sequences, FiniteSets, TLC

\* Bounds of the model.
MaxLen == 2
MaxProps == 3
MaxOps == 1
MaxImports == 3

(***************************************************************************)
(* Values                                                                  *)
(***************************************************************************)
undefined == "undefined"
undefinedBytes == <<-1>>
false == <<-2>>

Rep(b, n) == [i \in 1..n |-> b]

RECURSIVE Sum(_)
Sum(s) == IF s = <<>> THEN 0 ELSE Head(s) + Sum(Tail(s))

Slice(s, from, to) == [i \in 1..(to - from) |-> s[from + i]]

\* All byte sequences of a length up to n over the bytes of B.
RECURSIVE SeqsUpTo(_, _)
SeqsUpTo(B, n) ==
    IF n = 0 THEN {<<>>}
    ELSE LET shorter == SeqsUpTo(B, n - 1)
         IN  shorter \cup {Append(s, b) : s \in shorter, b \in B}

(***************************************************************************)
(* Base64 (url-safe, unpadded on encode, padding tolerated on decode)      *)
(***************************************************************************)
Pad == 64

RECURSIVE Base64Encode(_)
Base64Encode(bytes) ==
    IF Len(bytes) = 0 THEN <<>>
    ELSE IF Len(bytes) = 1 THEN
        << bytes[1] \div 4, (bytes[1] % 4) * 16 >>
    ELSE IF Len(bytes) = 2 THEN
        << bytes[1] \div 4,
           (bytes[1] % 4) * 16 + bytes[2] \div 16,
           (bytes[2] % 16) * 4 >>
    ELSE
        << bytes[1] \div 4,
           (bytes[1] % 4) * 16 + bytes[2] \div 16,
           (bytes[2] % 16) * 4 + bytes[3] \div 64,
           bytes[3] % 64 >> \o Base64Encode(SubSeq(bytes, 4, Len(bytes)))

RECURSIVE StripPad(_)
StripPad(s) ==
    IF Len(s) > 0 /\ s[Len(s)] = Pad THEN StripPad(SubSeq(s, 1, Len(s) - 1)) ELSE s

RECURSIVE DecodeChars(_)
DecodeChars(s) ==
    IF Len(s) < 2 THEN <<>>
    ELSE IF Len(s) = 2 THEN
        << s[1] * 4 + s[2] \div 16 >>
    ELSE IF Len(s) = 3 THEN
        << s[1] * 4 + s[2] \div 16,
           (s[2] % 16) * 16 + s[3] \div 4 >>
    ELSE
        << s[1] * 4 + s[2] \div 16,
           (s[2] % 16) * 16 + s[3] \div 4,
           (s[3] % 4) * 64 + s[4] >> \o DecodeChars(SubSeq(s, 5, Len(s)))

Base64Decode(s) == DecodeChars(StripPad(s))

(***************************************************************************)
(* DER: a node is its tag byte, its content bytes and, for a constructed   *)
(* tag, the nodes decoded from the content.                                *)
(***************************************************************************)
DerType ==
    [UnsignedInt |-> 2, BitString |-> 3, OctetString |-> 4, ObjectIdentifier |-> 6,
     Sequence |-> 48]

\* The node an absent element reads as (undefined).
NoNode == [tag |-> -1, bytes |-> <<>>, elements |-> <<>>]

Constructed(tag) == (tag \div 32) % 2 = 1

\* The tag and length octets at the head of bytes: how many they are and the content
\* length they announce; size 0 when they are malformed or cut short.
Header(bytes) ==
    IF Len(bytes) < 2 THEN [size |-> 0, length |-> 0]
    ELSE IF bytes[2] < 128 THEN [size |-> 2, length |-> bytes[2]]
    ELSE IF bytes[2] = 129 /\ Len(bytes) >= 3 THEN [size |-> 3, length |-> bytes[3]]
    ELSE [size |-> 0, length |-> 0]

\* bytes is a concatenation of well-formed elements.
RECURSIVE WellFormed(_)
WellFormed(bytes) ==
    \/ bytes = <<>>
    \/ LET h == Header(bytes)
       IN  /\ h.size > 0
           /\ h.size + h.length <= Len(bytes)
           /\ Constructed(bytes[1]) =>
                  WellFormed(SubSeq(bytes, h.size + 1, h.size + h.length))
           /\ WellFormed(SubSeq(bytes, h.size + h.length + 1, Len(bytes)))

RECURSIVE DecodeNodes(_)
DecodeNodes(bytes) ==
    IF bytes = <<>> THEN <<>>
    ELSE
        LET h == Header(bytes)
            content == SubSeq(bytes, h.size + 1, h.size + h.length)
            node == [tag |-> bytes[1],
                     bytes |-> content,
                     elements |-> IF Constructed(bytes[1]) THEN DecodeNodes(content) ELSE <<>>]
        IN  <<node>> \o DecodeNodes(SubSeq(bytes, h.size + h.length + 1, Len(bytes)))

\* DerCodec.decode(input): the root node, or the decoder's error.
DerDecode(bytes) ==
    IF bytes # <<>> /\ WellFormed(bytes)
    THEN [err |-> "", node |-> DecodeNodes(bytes)[1]]
    ELSE [err |-> "BadDer", node |-> NoNode]

\* node?._elements?.[i], with the index counted from 0 as in the source.
Element(node, i) == IF i + 1 <= Len(node.elements) THEN node.elements[i + 1] ELSE NoNode

\* ByteArray.toHex(): two hexadecimal digits per byte, written as the sequence of
\* the digits' values.
toHex(bytes) ==
    [i \in 1..(2 * Len(bytes)) |->
        IF i % 2 = 1 THEN bytes[(i + 1) \div 2] \div 16 ELSE bytes[i \div 2] % 16]

(***************************************************************************)
(* The key record and its accessor tables                                  *)
(***************************************************************************)
JWK_KEYS ==
    {"crv", "d", "dp", "dq", "e", "ext", "k", "key_ops", "kty", "n", "oth",
     "p", "q", "qi", "use", "x", "y"}

\* The fields of the Key interface that hold data: JWK_KEYS and alg, which the
\* interface declares and the alias algorithm targets.
Fields == JWK_KEYS \cup {"alg"}

\* The fields holding a base64 string.
Base64Fields == {"d", "x", "y", "k"}

KeyType == [EC |-> "EC", RSA |-> "RSA", oct |-> "oct"]

CurveType == [p256 |-> "P-256", p384 |-> "P-384", p521 |-> "P-521"]

\* The hexadecimal strings of the source, digit by digit.
Asn1ObjectID ==
    [ecPublicKey |-> <<2, 10, 8, 6, 4, 8, 12, 14, 3, 13, 0, 2, 0, 1>>,
     prime256r1 |-> <<2, 10, 8, 6, 4, 8, 12, 14, 3, 13, 0, 3, 0, 1, 0, 7>>,
     prime384r1 |-> <<0, 1, 0, 3, 8, 4, 0, 0, 2, 2>>,
     prime521r1 |-> <<0, 1, 0, 3, 8, 4, 0, 0, 2, 3>>]

\* CurveLookup[hex]: undefined for a key the table does not have.
CurveLookup(hex) ==
    CASE hex = Asn1ObjectID.prime256r1 -> CurveType.p256
      [] hex = Asn1ObjectID.prime384r1 -> CurveType.p384
      [] hex = Asn1ObjectID.prime521r1 -> CurveType.p521
      [] OTHER -> undefined

Aliases ==
    [algorithm |-> "alg", curve |-> "crv", type |-> "kty",
     operations |-> "key_ops", private |-> "d", extractable |-> "ext"]

Base64Codecs == [privateBits |-> "d", xBits |-> "x", yBits |-> "y"]

AssertedAliases ==
    [publicKey |-> "publicBits", privateKey |-> "privateBits", keyPair |-> "keyPairBits"]

\* The order in which Key() walks each table (Object.entries / Object.keys).
AliasOrder == <<"algorithm", "curve", "type", "operations", "private", "extractable">>

CodecOrder == <<"privateBits", "xBits", "yBits">>

\* The importers walked with the two private-key formats exchanged.
TranslatorOrderPkcs8First == <<"pkcs8", "sec1", "spki", "publicBits", "keyPairBits">>

TranslatorOrder == <<"sec1", "pkcs8", "spki", "publicBits", "keyPairBits">>

AssertedOrder == <<"publicKey", "privateKey", "keyPair">>

BytesProps ==
    {"privateBits", "xBits", "yBits", "sec1", "pkcs8", "spki", "publicBits",
     "publicKey", "privateKey"}

PairProps == {"keyPairBits", "keyPair"}

\* A property name that Key() does not know.
UnknownProps == {"unknown"}

PropNames == Fields \cup DOMAIN Aliases \cup BytesProps \cup PairProps \cup UnknownProps

\* The property names in a fixed order.
PropOrder ==
    <<"alg", "crv", "d", "dp", "dq", "e", "ext", "k", "key_ops", "kty", "n", "oth",
      "p", "q", "qi", "use", "x", "y",
      "algorithm", "curve", "type", "operations", "private", "extractable",
      "privateBits", "xBits", "yBits", "sec1", "pkcs8", "spki", "publicBits",
      "keyPairBits", "publicKey", "privateKey", "keyPair", "unknown">>

undefinedPair == [publicKey |-> undefinedBytes, privateKey |-> undefinedBytes]

\* The properties object {}: every property has the value undefined of its type.
NoProperties ==
    [name \in PropNames |->
        IF name \in PairProps THEN undefinedPair
        ELSE IF name \in Base64Fields \cup BytesProps \cup {"private"} THEN undefinedBytes
        ELSE undefined]

\* The value undefined in the type of property or field `name`.
Undef(name) == NoProperties[name]

EmptyKey == [f \in Fields |-> Undef(f)]

\* JavaScript truthiness of a string: neither undefined nor empty.
Truthy(v) == v # undefined /\ v # ""

\* The same of a base64 string.
TruthyBase64(v) == v # undefinedBytes /\ v # <<>>

\* The outcome of a write: the key it leaves and the error it threw ("" for none).
Ok(t) == [err |-> "", that |-> t]

Throw(kind, t) == [err |-> kind, that |-> t]

\* The outcome of a read.
Return(v) == [err |-> "", value |-> v]

ThrowRead(kind, name) == [err |-> kind, value |-> Undef(name)]

(***************************************************************************)
(* Accessors                                                               *)
(***************************************************************************)
\* Human alias: get: () => that[target], set: (value) => that[target] = value
GetAlias(t, alias) == t[Aliases[alias]]

\* A human alias that kept a value of its own would leave the base field alone.
SetAliasDetached(t, alias, value) == t

SetAlias(t, alias, value) == [t EXCEPT ![Aliases[alias]] = value]

\* Binary alias getter: that[target] !== undefined && Base64.decode(that[target])
GetCodec(t, alias) ==
    IF t[Base64Codecs[alias]] # undefinedBytes
    THEN Base64Decode(t[Base64Codecs[alias]])
    ELSE false

\* A binary alias setter that kept the padding of the encoding.
SetCodecPadded(t, alias, value) ==
    [t EXCEPT ![Base64Codecs[alias]] =
        IF value = undefinedBytes THEN undefinedBytes
        ELSE Base64Encode(value) \o Rep(Pad, (3 - (Len(value) % 3)) % 3)]

\* Binary alias setter: value === undefined ? undefined : Base64.encode(value, true)
SetCodec(t, alias, value) ==
    [t EXCEPT ![Base64Codecs[alias]] =
        IF value = undefinedBytes THEN undefinedBytes ELSE Base64Encode(value)]

\* A curve inference that ignored the curve of the key.
inferCurveAlways(t, bytes) ==
    CASE bytes = 66 -> Ok([t EXCEPT !["crv"] = CurveType.p521])
      [] bytes = 48 -> Ok([t EXCEPT !["crv"] = CurveType.p384])
      [] bytes = 32 -> Ok([t EXCEPT !["crv"] = CurveType.p256])
      [] OTHER -> Throw("UnknownCurve", t)

\* A curve inference with the two longer curves exchanged.
inferCurveExchanged(t, bytes) ==
    IF ~Truthy(t["crv"]) THEN
        CASE bytes = 66 -> Ok([t EXCEPT !["crv"] = CurveType.p384])
          [] bytes = 48 -> Ok([t EXCEPT !["crv"] = CurveType.p521])
          [] bytes = 32 -> Ok([t EXCEPT !["crv"] = CurveType.p256])
          [] OTHER -> Throw("UnknownCurve", t)
    ELSE Ok(t)

inferCurve(t, bytes) ==
    IF ~Truthy(t["crv"]) THEN
        CASE bytes = 66 -> Ok([t EXCEPT !["crv"] = CurveType.p521])
          [] bytes = 48 -> Ok([t EXCEPT !["crv"] = CurveType.p384])
          [] bytes = 32 -> Ok([t EXCEPT !["crv"] = CurveType.p256])
          [] OTHER -> Throw("UnknownCurve", t)
    ELSE Ok(t)

\* checkDerVersion: the node is an integer of one byte equal to version.
checkDerVersion(node, version) ==
    /\ node # NoNode
    /\ node.tag = DerType.UnsignedInt
    /\ Len(node.bytes) = 1
    /\ node.bytes[1] = version

\* getDerObjectID: the content of an object identifier of more than one byte.
getDerObjectID(node) ==
    IF node # NoNode /\ node.tag = DerType.ObjectIdentifier /\ Len(node.bytes) > 1
    THEN Return(node.bytes)
    ELSE [err |-> "MissingField", value |-> undefinedBytes]

getDerCurve(node) ==
    LET oid == getDerObjectID(node)
    IN  IF oid.err # "" THEN [err |-> oid.err, value |-> undefined]
        ELSE IF Truthy(CurveLookup(toHex(oid.value))) THEN Return(CurveLookup(toHex(oid.value)))
        ELSE [err |-> "UnknownCurve", value |-> undefined]

\* getDerKey: the content of a node of type derType of more than one byte; the
\* error it throws is a MatterError, not a KeyError.
getDerKey(node, derType) ==
    IF node # NoNode /\ node.tag = derType /\ Len(node.bytes) > 1
    THEN Return(node.bytes)
    ELSE [err |-> "MatterError", value |-> undefinedBytes]

\* A raw point importer that looked at the format byte before the length.
SetPublicBitsFormatFirst(t, input) ==
    IF input = undefinedBytes THEN Throw("TypeError", t)
    ELSE IF input # <<>> /\ input[1] \in {2, 3} THEN Throw("UnsupportedCompression", t)
    ELSE IF input # <<>> /\ input[1] = 5 THEN Throw("BadFormat", t)
    ELSE IF Len(input) % 2 = 0 THEN Throw("BadFormat", t)
    ELSE
        LET coordinateLength == (Len(input) - 1) \div 2
            inferred == inferCurve(t, coordinateLength)
            typed == [inferred.that EXCEPT !["kty"] = KeyType.EC]
            withX == SetCodec(typed, "xBits", Slice(input, 1, coordinateLength + 1))
        IN  IF inferred.err # "" THEN inferred
            ELSE Ok(SetCodec(withX, "yBits", Slice(input, coordinateLength + 1, Len(input))))

\* Translators.publicBits.set
SetPublicBits(t, input) ==
    IF input = undefinedBytes THEN Throw("TypeError", t)
    ELSE IF Len(input) % 2 = 0 THEN Throw("BadFormat", t)
    ELSE IF input[1] \in {2, 3} THEN Throw("UnsupportedCompression", t)
    ELSE IF input[1] = 5 THEN Throw("BadFormat", t)
    ELSE
        LET coordinateLength == (Len(input) - 1) \div 2
            inferred == inferCurve(t, coordinateLength)
            typed == [inferred.that EXCEPT !["kty"] = KeyType.EC]
            withX == SetCodec(typed, "xBits", Slice(input, 1, coordinateLength + 1))
        IN  IF inferred.err # "" THEN inferred
            ELSE Ok(SetCodec(withX, "yBits", Slice(input, coordinateLength + 1, Len(input))))

\* Translators.publicBits.get: spreading the false that a binary getter returns for
\* an absent field throws a TypeError.
GetPublicBits(t) ==
    LET xBits == GetCodec(t, "xBits")
        yBits == GetCodec(t, "yBits")
    IN  IF xBits = undefinedBytes \/ yBits = undefinedBytes THEN Return(undefinedBytes)
        ELSE IF xBits = false \/ yBits = false THEN ThrowRead("TypeError", "publicBits")
        ELSE Return(<<4>> \o xBits \o yBits)

\* Translators.sec1.set
SetSec1(t, input) ==
    LET decoded == DerDecode(input)
        versionNode == Element(decoded.node, 0)
        curveNode == Element(Element(decoded.node, 2), 0)
        curve == getDerCurve(curveNode)
        keyNode == Element(decoded.node, 1)
        key == getDerKey(keyNode, DerType.OctetString)
    IN  IF input = undefinedBytes THEN Throw("TypeError", t)
        ELSE IF decoded.err # "" THEN Throw(decoded.err, t)
        ELSE IF ~checkDerVersion(versionNode, 1) THEN Throw("BadVersion", t)
        ELSE IF curve.err # "" THEN Throw(curve.err, t)
        ELSE IF key.err # "" THEN Throw(key.err, t)
        ELSE Ok(SetCodec(SetAlias(SetAlias(t, "type", KeyType.EC), "curve", curve.value),
                         "privateBits", key.value))

\* A PKCS #8 importer that looked the curve up before the algorithm.
SetPkcs8CurveFirst(t, input) ==
    LET outer == DerDecode(input)
        version == Element(outer.node, 0)
        algorithmElements == Element(outer.node, 1)
        algorithm == getDerObjectID(Element(algorithmElements, 0))
        curve == getDerCurve(Element(algorithmElements, 1))
        innerNode == Element(outer.node, 2)
        inner == DerDecode(innerNode.bytes)
        key == getDerKey(Element(inner.node, 1), DerType.OctetString)
    IN  IF input = undefinedBytes THEN Throw("TypeError", t)
        ELSE IF outer.err # "" THEN Throw(outer.err, t)
        ELSE IF ~checkDerVersion(version, 0) THEN Throw("BadVersion", t)
        ELSE IF curve.err # "" THEN Throw(curve.err, t)
        ELSE IF algorithm.err # "" THEN Throw(algorithm.err, t)
        ELSE IF toHex(algorithm.value) # Asn1ObjectID.ecPublicKey
        THEN Throw("UnsupportedAlgorithm", t)
        ELSE IF innerNode = NoNode THEN Throw("TypeError", t)
        ELSE IF inner.err # "" THEN Throw(inner.err, t)
        ELSE IF key.err # "" THEN Throw(key.err, t)
        ELSE Ok(SetCodec(SetAlias(SetAlias(t, "type", KeyType.EC), "curve", curve.value),
                         "privateBits", key.value))

\* Translators.pkcs8.set
SetPkcs8(t, input) ==
    LET outer == DerDecode(input)
        version == Element(outer.node, 0)
        algorithmElements == Element(outer.node, 1)
        algorithm == getDerObjectID(Element(algorithmElements, 0))
        curve == getDerCurve(Element(algorithmElements, 1))
        innerNode == Element(outer.node, 2)
        inner == DerDecode(innerNode.bytes)
        key == getDerKey(Element(inner.node, 1), DerType.OctetString)
    IN  IF input = undefinedBytes THEN Throw("TypeError", t)
        ELSE IF outer.err # "" THEN Throw(outer.err, t)
        ELSE IF ~checkDerVersion(version, 0) THEN Throw("BadVersion", t)
        ELSE IF algorithm.err # "" THEN Throw(algorithm.err, t)
        ELSE IF toHex(algorithm.value) # Asn1ObjectID.ecPublicKey
        THEN Throw("UnsupportedAlgorithm", t)
        ELSE IF curve.err # "" THEN Throw(curve.err, t)
        ELSE IF innerNode = NoNode THEN Throw("TypeError", t)
        ELSE IF inner.err # "" THEN Throw(inner.err, t)
        ELSE IF key.err # "" THEN Throw(key.err, t)
        ELSE Ok(SetCodec(SetAlias(SetAlias(t, "type", KeyType.EC), "curve", curve.value),
                         "privateBits", key.value))

\* An SPKI importer that left a curve the key already has.
SetSpkiKeepsCurve(t, input) ==
    LET decoded == DerDecode(input)
        algorithmElements == Element(decoded.node, 0)
        algorithm == getDerObjectID(Element(algorithmElements, 0))
        curve == getDerCurve(Element(algorithmElements, 1))
        key == getDerKey(Element(decoded.node, 1), DerType.BitString)
    IN  IF input = undefinedBytes THEN Throw("TypeError", t)
        ELSE IF decoded.err # "" THEN Throw(decoded.err, t)
        ELSE IF algorithm.err # "" THEN Throw(algorithm.err, t)
        ELSE IF toHex(algorithm.value) # Asn1ObjectID.ecPublicKey
        THEN Throw("UnsupportedAlgorithm", t)
        ELSE IF curve.err # "" THEN Throw(curve.err, t)
        ELSE IF key.err # "" THEN Throw(key.err, t)
        ELSE SetPublicBits(IF Truthy(t["crv"]) THEN SetAlias(t, "type", KeyType.EC)
                           ELSE SetAlias(SetAlias(t, "type", KeyType.EC), "curve", curve.value),
                           key.value)

\* Translators.spki.set: type and curve are written before the point is imported.
SetSpki(t, input) ==
    LET decoded == DerDecode(input)
        algorithmElements == Element(decoded.node, 0)
        algorithm == getDerObjectID(Element(algorithmElements, 0))
        curve == getDerCurve(Element(algorithmElements, 1))
        key == getDerKey(Element(decoded.node, 1), DerType.BitString)
    IN  IF input = undefinedBytes THEN Throw("TypeError", t)
        ELSE IF decoded.err # "" THEN Throw(decoded.err, t)
        ELSE IF algorithm.err # "" THEN Throw(algorithm.err, t)
        ELSE IF toHex(algorithm.value) # Asn1ObjectID.ecPublicKey
        THEN Throw("UnsupportedAlgorithm", t)
        ELSE IF curve.err # "" THEN Throw(curve.err, t)
        ELSE IF key.err # "" THEN Throw(key.err, t)
        ELSE SetPublicBits(SetAlias(SetAlias(t, "type", KeyType.EC), "curve", curve.value),
                           key.value)

\* Translators.keyPairBits.set
SetKeyPairBits(t, keyPair) ==
    LET pub == SetPublicBits(t, keyPair.publicKey)
    IN  IF keyPair = undefinedPair THEN Throw("TypeError", t)
        ELSE IF pub.err # "" THEN pub
        ELSE Ok(SetCodec(pub.that, "privateBits", keyPair.privateKey))

\* Translators.keyPairBits.get
GetKeyPairBits(t) ==
    LET publicBits == GetPublicBits(t)
        privateBits == GetCodec(t, "privateBits")
    IN  IF publicBits.err # "" THEN ThrowRead(publicBits.err, "keyPairBits")
        ELSE IF publicBits.value = undefinedBytes \/ privateBits = undefinedBytes
        THEN Return(undefinedPair)
        ELSE Return([publicKey |-> publicBits.value, privateKey |-> privateBits])

\* Reading property `name` of the key.
Get(t, name) ==
    LET target == IF name \in DOMAIN AssertedAliases THEN AssertedAliases[name] ELSE name
        result ==
            CASE target \in Fields -> Return(t[target])
              [] target \in DOMAIN Aliases -> Return(GetAlias(t, target))
              [] target \in DOMAIN Base64Codecs -> Return(GetCodec(t, target))
              [] target \in {"sec1", "pkcs8", "spki"} -> ThrowRead("NotImplemented", target)
              [] target = "publicBits" -> GetPublicBits(t)
              [] target = "keyPairBits" -> GetKeyPairBits(t)
    IN  IF name \in DOMAIN AssertedAliases /\ result.err = "" /\ result.value = Undef(name)
        THEN ThrowRead("MissingField", name)
        ELSE result

\* Writing `value` to property `name` of the key.
Set(t, name, value) ==
    LET target == IF name \in DOMAIN AssertedAliases THEN AssertedAliases[name] ELSE name
    IN  CASE target \in Fields -> Ok([t EXCEPT ![target] = value])
          [] target \in DOMAIN Aliases -> Ok(SetAlias(t, target, value))
          [] target \in DOMAIN Base64Codecs -> Ok(SetCodec(t, target, value))
          [] target = "sec1" -> SetSec1(t, value)
          [] target = "pkcs8" -> SetPkcs8(t, value)
          [] target = "spki" -> SetSpki(t, value)
          [] target = "publicBits" -> SetPublicBits(t, value)
          [] target = "keyPairBits" -> SetKeyPairBits(t, value)

(***************************************************************************)
(* The EC provider: derivePublicPoint(curve, privateScalarBytes)           *)
(***************************************************************************)
FieldSize(crv) ==
    CASE crv = CurveType.p256 -> 32
      [] crv = CurveType.p384 -> 48
      [] crv = CurveType.p521 -> 66

\* The affine coordinates of d.G as fixed-width big-endian integers.  The curve
\* arithmetic is the provider's; a stand-in that is a function of (crv, d) and
\* gives some coordinates a leading zero byte and others none takes its place.  The scalar zero has no
\* affine point.
DerivePublicPoint(crv, scalar) ==
    LET s == Sum(scalar) % 256
        n == FieldSize(crv)
    IN  IF Sum(scalar) = 0 THEN [err |-> "BadScalar", x |-> <<>>, y |-> <<>>]
        ELSE [err |-> "",
              x |-> [i \in 1..n |-> IF i = 1 THEN (s \div 32) % 2 ELSE (s + i) % 256],
              y |-> [i \in 1..n |-> IF i = 1 THEN (s \div 64) % 2 ELSE (2 * s + i) % 256]]

\* BN.toArray() with no length: the big-endian bytes without leading zeros, one
\* zero byte for the number zero.
RECURSIVE toArray(_)
toArray(bytes) ==
    IF Len(bytes) > 1 /\ bytes[1] = 0 THEN toArray(Tail(bytes)) ELSE bytes

(***************************************************************************)
(* Key(properties)                                                         *)
(***************************************************************************)
\* An assign() that left an asserted alias unapplied once its target is set.
assignUnlessSet(r, properties, name) ==
    IF r.err # "" \/ properties[name] = Undef(name) THEN r
    ELSE IF name = "privateKey" /\ r.that["d"] # undefinedBytes THEN r
    ELSE IF name = "publicKey" /\ r.that["x"] # undefinedBytes /\ r.that["y"] # undefinedBytes THEN r
    ELSE IF /\ name = "keyPair"
            /\ r.that["d"] # undefinedBytes
            /\ r.that["x"] # undefinedBytes
            /\ r.that["y"] # undefinedBytes THEN r
    ELSE Set(r.that, name, properties[name])

\* assign(name): the property is written through when it has a defined value.
assign(r, properties, name) ==
    IF r.err # "" \/ properties[name] = Undef(name) THEN r
    ELSE Set(r.that, name, properties[name])

RECURSIVE assignAll(_, _, _)
assignAll(r, properties, names) ==
    IF names = <<>> THEN r
    ELSE assignAll(assign(r, properties, Head(names)), properties, Tail(names))

\* A descriptor that made every accessor enumerable.
EnumerableAccessor(name) == TRUE

\* Object.defineProperty(that, name, { get, set }): the descriptors of the aliases,
\* codecs, importers and asserted aliases name no enumerable, whose default is false.
Enumerable(name) == FALSE

\* Object.keys(that): the fields holding a value, which plain assignment creates
\* enumerable, and the accessors defined enumerable.
ObjectKeys(t) ==
    {f \in Fields : t[f] # Undef(f)}
        \cup {name \in (DOMAIN Aliases) \cup BytesProps \cup PairProps : Enumerable(name)}

\* The base JWK properties are copied as they are.
CopyBase(properties) ==
    [f \in Fields |-> IF f \in JWK_KEYS THEN properties[f] ELSE Undef(f)]

derivePublicFromPrivate(t) ==
    IF t["kty"] # KeyType.EC THEN Throw("MissingField", t)
    ELSE IF ~TruthyBase64(t["d"]) THEN Throw("MissingField", t)
    ELSE IF t["crv"] \notin {CurveType.p256, CurveType.p384, CurveType.p521}
    THEN Throw("UnknownCurve", t)
    ELSE
        LET privateKey == Get(t, "privateKey")
            ecKey == DerivePublicPoint(t["crv"], privateKey.value)
        IN  IF privateKey.err # "" THEN Throw(privateKey.err, t)
            ELSE IF ecKey.err # "" THEN Throw(ecKey.err, t)
            ELSE Ok(SetCodec(SetCodec(t, "xBits", toArray(ecKey.x)), "yBits", toArray(ecKey.y)))

\* A closing step that derived the public point of every key with d.
FinishECAlwaysDerive(t) ==
    IF t["kty"] # KeyType.EC THEN Ok(t)
    ELSE
        LET inferred ==
                IF TruthyBase64(t["d"]) THEN
                    LET privateKey == Get(t, "privateKey")
                    IN  IF privateKey.err # "" THEN Throw(privateKey.err, t)
                        ELSE inferCurve(t, Len(privateKey.value))
                ELSE IF GetCodec(t, "xBits") # false THEN
                    inferCurve(t, Len(GetCodec(t, "xBits")))
                ELSE Ok(t)
            u == inferred.that
        IN  IF inferred.err # "" THEN inferred
            ELSE IF TruthyBase64(u["d"]) THEN derivePublicFromPrivate(u)
            ELSE Ok(u)

\* The closing step of Key() for an EC key: curve inference, then derivation.
FinishEC(t) ==
    IF t["kty"] # KeyType.EC THEN Ok(t)
    ELSE
        LET inferred ==
                IF TruthyBase64(t["d"]) THEN
                    LET privateKey == Get(t, "privateKey")
                    IN  IF privateKey.err # "" THEN Throw(privateKey.err, t)
                        ELSE inferCurve(t, Len(privateKey.value))
                ELSE IF GetCodec(t, "xBits") # false THEN
                    inferCurve(t, Len(GetCodec(t, "xBits")))
                ELSE Ok(t)
            u == inferred.that
        IN  IF inferred.err # "" THEN inferred
            ELSE IF TruthyBase64(u["d"]) /\ (~TruthyBase64(u["x"]) \/ ~TruthyBase64(u["y"]))
            THEN derivePublicFromPrivate(u)
            ELSE Ok(u)

\* Key() up to and including its importers.
Imported(properties) ==
    LET based == Ok(CopyBase(properties))
        aliased == assignAll(based, properties, AliasOrder)
        coded == assignAll(aliased, properties, CodecOrder)
    IN  assignAll(coded, properties, TranslatorOrder)

\* Key() up to and including its asserted aliases.
Applied(properties) == assignAll(Imported(properties), properties, AssertedOrder)

Key(properties) ==
    LET asserted == Applied(properties)
    IN  IF asserted.err # "" THEN asserted ELSE FinishEC(asserted.that)

(***************************************************************************)
(* Factory variants                                                        *)
(***************************************************************************)
\* { ...base, ...options }: a property of options replaces the one of base.
Spread(base, options) ==
    [p \in PropNames |-> IF options[p] # Undef(p) THEN options[p] ELSE base[p]]

PrivateKeyProperties(arg, options) ==
    Spread([NoProperties EXCEPT !["type"] = KeyType.EC,
                                !["privateKey"] = arg.privateKey,
                                !["publicKey"] = arg.publicKey], options)

PublicKeyProperties(publicKey, options) ==
    Spread([NoProperties EXCEPT !["type"] = KeyType.EC,
                                !["publicKey"] = publicKey], options)

\* A symmetric factory that stored the raw bytes in k.
SymmetricKeyPropertiesK(privateKey, options) ==
    Spread([NoProperties EXCEPT !["kty"] = KeyType.oct,
                                !["k"] = Base64Encode(privateKey)], options)

SymmetricKeyProperties(privateKey, options) ==
    Spread([NoProperties EXCEPT !["type"] = KeyType.oct,
                                !["privateKey"] = privateKey], options)

(***************************************************************************)
(* Inputs                                                                  *)
(***************************************************************************)
Scalar32 == Rep(1, 32)
Scalar48 == Rep(2, 48)
Scalar66 == Rep(3, 66)
Zero32 == Rep(0, 32)
X32 == Rep(17, 32)
Y32 == Rep(18, 32)
X48 == Rep(19, 48)
Y48 == Rep(20, 48)
Point(x, y) == <<4>> \o x \o y
EncodedScalar32 == Base64Encode(Scalar32)
EncodedScalar48 == Base64Encode(Scalar48)
EncodedX32 == Base64Encode(X32)
EncodedY32 == Base64Encode(Y32)
EncodedK == Base64Encode(<<1, 2, 3>>)
Point32 == Point(X32, Y32)
Point48 == Point(X48, Y48)
Point66 == Point(Rep(21, 66), Rep(22, 66))
Compressed32 == <<2>> \o X32

SmallBytes == SeqsUpTo({0, 255}, MaxLen)

Pairs(pubs, privs) == {[publicKey |-> a, privateKey |-> b] : a \in pubs, b \in privs}

\* The values a caller supplies for each property.
Inputs ==
    [name \in PropNames |->
    CASE name \in {"kty"} -> {KeyType.EC, KeyType.oct}
      [] name \in {"type"} -> {KeyType.EC}
      [] name = "crv" -> {CurveType.p256, "secp256k1"}
      [] name = "curve" -> {CurveType.p384}
      [] name = "d" -> {<<>>, EncodedScalar32}
      [] name = "private" -> {EncodedScalar48}
      [] name = "x" -> {<<>>, EncodedX32}
      [] name = "y" -> {EncodedY32}
      [] name = "k" -> {EncodedK}
      [] name = "privateBits" -> {<<>>, Scalar66, Rep(5, 5)}
      [] name = "privateKey" -> {<<>>, Scalar32, Zero32}
      [] name = "xBits" -> {X48, Rep(7, 7)}
      [] name = "yBits" -> {Y48}
      [] name = "publicBits" -> {Point32, Compressed32, <<4, 1>>}
      [] name = "publicKey" -> {Point48, <<5, 1, 2>>, <<4, 1, 2>>}
      [] name = "keyPairBits" -> Pairs({Point32}, {Scalar32})
      [] name = "keyPair" -> Pairs({Point66, <<3>>}, {Scalar66})
      [] name \in {"sec1", "pkcs8", "spki"} \cup UnknownProps -> {}
      [] name \in DOMAIN Aliases -> {"w"}
      [] OTHER -> {"v"}]

\* DER inputs.  An element is its tag, its length and its content.
Tlv(tag, content) ==
    IF Len(content) < 128 THEN <<tag, Len(content)>> \o content
    ELSE <<tag, 129, Len(content)>> \o content

\* Object identifiers in their DER content bytes: id-ecPublicKey 1.2.840.10045.2.1,
\* prime256v1 1.2.840.10045.3.1.7, secp384r1 1.3.132.0.34, secp521r1 1.3.132.0.35,
\* rsaEncryption 1.2.840.113549.1.1.1 and the one-byte identifier 1.2.
OidEcPublicKey == <<42, 134, 72, 206, 61, 2, 1>>
OidPrime256v1 == <<42, 134, 72, 206, 61, 3, 1, 7>>
OidSecp384r1 == <<43, 129, 4, 0, 34>>
OidSecp521r1 == <<43, 129, 4, 0, 35>>
OidRsaEncryption == <<42, 134, 72, 134, 247, 13, 1, 1, 1>>
OidShort == <<42>>

\* The bytes whose hexadecimal form is the source's prime384r1 and prime521r1.
OidSource384 == <<1, 3, 132, 0, 34>>
OidSource521 == <<1, 3, 132, 0, 35>>

\* The private scalar carried by the DER inputs.
DerScalar == <<7, 9>>

\* SEQUENCE { INTEGER version, OCTET STRING key, [0] { OID curve } }
Sec1Der(version, key, curve) ==
    Tlv(48, Tlv(2, version) \o Tlv(4, key) \o Tlv(160, Tlv(6, curve)))

\* SEQUENCE { INTEGER version, SEQUENCE { OID algorithm, OID curve },
\*            OCTET STRING { SEQUENCE { INTEGER 1, OCTET STRING key } } }
Pkcs8Der(version, algorithm, curve, key) ==
    Tlv(48, Tlv(2, version) \o Tlv(48, Tlv(6, algorithm) \o Tlv(6, curve))
            \o Tlv(4, Tlv(48, Tlv(2, <<1>>) \o Tlv(4, key))))

\* The same without its third element.
Pkcs8DerNoKey(version, algorithm, curve) ==
    Tlv(48, Tlv(2, version) \o Tlv(48, Tlv(6, algorithm) \o Tlv(6, curve)))

\* SEQUENCE { SEQUENCE { OID algorithm, OID curve }, BIT STRING point }
SpkiDer(algorithm, curve, point) ==
    Tlv(48, Tlv(48, Tlv(6, algorithm) \o Tlv(6, curve)) \o Tlv(3, point))

Sec1Inputs ==
    {Sec1Der(<<1>>, DerScalar, OidPrime256v1),
     Sec1Der(<<1>>, DerScalar, OidSource384),
     Sec1Der(<<1>>, DerScalar, OidSecp384r1),
     Sec1Der(<<1>>, DerScalar, OidRsaEncryption),
     Sec1Der(<<1>>, DerScalar, OidShort),
     Sec1Der(<<0>>, DerScalar, OidPrime256v1),
     Sec1Der(<<0, 1>>, DerScalar, OidRsaEncryption),
     Sec1Der(<<1>>, <<7>>, OidPrime256v1)}

Pkcs8Inputs ==
    {Pkcs8Der(<<0>>, OidEcPublicKey, OidPrime256v1, <<8, 9>>),
     Pkcs8Der(<<0>>, OidEcPublicKey, OidSecp521r1, DerScalar),
     Pkcs8Der(<<0>>, OidEcPublicKey, OidRsaEncryption, DerScalar),
     Pkcs8Der(<<0>>, OidRsaEncryption, OidPrime256v1, DerScalar),
     Pkcs8Der(<<1>>, OidRsaEncryption, OidPrime256v1, DerScalar),
     Pkcs8Der(<<0>>, OidShort, OidPrime256v1, DerScalar),
     Pkcs8DerNoKey(<<0>>, OidRsaEncryption, OidShort),
     Pkcs8DerNoKey(<<0>>, OidEcPublicKey, OidRsaEncryption),
     Pkcs8DerNoKey(<<0>>, OidEcPublicKey, OidPrime256v1)}

SpkiInputs ==
    {SpkiDer(OidEcPublicKey, OidPrime256v1, Point32),
     SpkiDer(OidEcPublicKey, OidPrime256v1, Point48),
     SpkiDer(OidEcPublicKey, OidSecp384r1, Point48),
     SpkiDer(OidEcPublicKey, OidSource521, Compressed32),
     SpkiDer(OidEcPublicKey, OidPrime256v1, Compressed32),
     SpkiDer(OidRsaEncryption, OidPrime256v1, Point32)}

\* Raw points: every format byte of FormatBytes before 0..MaxLen further bytes, the
\* empty input, and points of the three coordinate lengths.
FormatBytes == {0, 2, 3, 4, 5, 6}

PublicBitsInputs ==
    {<<>>} \cup {<<b>> \o Rep(1, n) : b \in FormatBytes, n \in 0..MaxLen}
           \cup {Point32, Point48, Point66, Compressed32, <<0>> \o X32 \o Y32}

\* The values the caller draws the properties of an import from.
ImportInputs ==
    [name \in PropNames |->
    CASE name = "kty" -> {KeyType.oct}
      [] name = "crv" -> {CurveType.p384}
      [] name = "d" -> {EncodedScalar48}
      [] name = "x" -> {EncodedX32}
      [] name = "privateBits" -> {Scalar66}
      [] name = "use" -> {"sig"}
      [] name = "unknown" -> {"v"}
      [] name = "sec1" -> Sec1Inputs
      [] name = "pkcs8" -> Pkcs8Inputs
      [] name = "spki" -> SpkiInputs
      [] name = "publicBits" -> PublicBitsInputs
      [] name = "keyPairBits" -> Pairs({Point32}, {Scalar32})
      [] OTHER -> {}]

ImportValues(name) == ImportInputs[name]

InputValues(name) == Inputs[name]

Supplied(options) == {p \in PropNames : options[p] # Undef(p)}

\* The first arguments the factory variants are called with.
PrivateKeyArgs ==
    Pairs({undefinedBytes} \cup InputValues("publicKey"), InputValues("privateKey"))

PublicKeyArgs == Pairs(InputValues("publicKey"), {undefinedBytes})

SymmetricKeyArgs == Pairs({undefinedBytes}, InputValues("privateKey"))

\* The properties a factory hands to Key().
FactoryProperties(f, a, options) ==
    CASE f = "Key" -> options
      [] f = "PrivateKey" -> PrivateKeyProperties(a, options)
      [] f = "PublicKey" -> PublicKeyProperties(a.publicKey, options)
      [] f = "SymmetricKey" -> SymmetricKeyProperties(a.privateKey, options)

\* The number of properties a factory itself passes to Key().
OwnProperties(f, a) ==
    CASE f = "Key" -> 0
      [] f = "PrivateKey" -> IF a.publicKey = undefinedBytes THEN 2 ELSE 3
      [] OTHER -> 2

\* The names and values of the accessor operations made on a key.
Accessors == (DOMAIN Aliases) \cup BytesProps \cup PairProps

WrittenNames == Accessors \cup {Aliases[a] : a \in DOMAIN Aliases} \cup {"x", "y"}

WriteValues(name) ==
    InputValues(name) \cup {Undef(name)}
        \cup (IF name \in DOMAIN Base64Codecs THEN SmallBytes ELSE {})
        \cup (IF name \in {"sec1", "pkcs8", "spki"} THEN ImportValues(name) ELSE {})

(***************************************************************************)
(* The caller: it composes properties and calls a factory (Spec); it reads *)
(* and writes the properties of a key it got (AccessSpec).                 *)
(***************************************************************************)
VARIABLES
    options,      \* the properties the caller composes
    factory,      \* the factory called, "" before the call
    arg,          \* the factory's first argument (PrivateKey, PublicKey, SymmetricKey)
    properties,   \* the properties Key() was called with
    that,         \* the key
    pc,           \* "input", "key" (a key was returned), "failed" (Key() threw)
    error,        \* the error of the last operation that threw, "" when it returned
    last,         \* the last accessor operation on the key
    value,        \* the value it read or wrote
    before,       \* the key before that operation
    ops           \* the number of accessor operations made

vars == <<options, factory, arg, properties, that, pc, error, last, value, before, ops>>

NoAccess == [op |-> "none", name |-> ""]

Init ==
    /\ options = NoProperties
    /\ factory = ""
    /\ arg = undefinedPair
    /\ properties = NoProperties
    /\ that = EmptyKey
    /\ pc = "input"
    /\ error = ""
    /\ last = NoAccess
    /\ value = undefined
    /\ before = EmptyKey
    /\ ops = 0

\* The caller writes the properties in the order of PropOrder: Key() reads them by
\* name, so the order in which the object was filled does not reach it.
Supply(i, v) ==
    /\ pc = "input"
    /\ \A j \in i..Len(PropOrder) : options[PropOrder[j]] = Undef(PropOrder[j])
    /\ Cardinality(Supplied(options)) < MaxProps
    /\ options' = [options EXCEPT ![PropOrder[i]] = v]
    /\ UNCHANGED <<factory, arg, properties, that, pc, error, last, value, before, ops>>

\* The call of factory f with first argument a and the composed options.
Construct(f, a) ==
    /\ pc = "input"
    /\ OwnProperties(f, a) + Cardinality(Supplied(options)) <= MaxProps
    /\ \E r \in {Key(FactoryProperties(f, a, options))} :
        /\ that' = IF r.err = "" THEN r.that ELSE EmptyKey
        /\ pc' = IF r.err = "" THEN "key" ELSE "failed"
        /\ error' = r.err
    /\ factory' = f
    /\ arg' = a
    /\ properties' = FactoryProperties(f, a, options)
    /\ UNCHANGED <<options, last, value, before, ops>>

CallKey == Construct("Key", undefinedPair)

CallPrivateKey == \E a \in PrivateKeyArgs : Construct("PrivateKey", a)

CallPublicKey == \E a \in PublicKeyArgs : Construct("PublicKey", a)

CallSymmetricKey == \E a \in SymmetricKeyArgs : Construct("SymmetricKey", a)

Next ==
    \/ \E i \in 1..Len(PropOrder) : \E v \in InputValues(PropOrder[i]) : Supply(i, v)
    \/ CallKey
    \/ CallPrivateKey
    \/ CallPublicKey
    \/ CallSymmetricKey

Spec == Init /\ [][Next]_vars

\* The caller composes the properties of an import: importer inputs with the base
\* fields and aliases the importers write over.
SupplyImport(i, v) ==
    /\ pc = "input"
    /\ \A j \in i..Len(PropOrder) : options[PropOrder[j]] = Undef(PropOrder[j])
    /\ Cardinality(Supplied(options)) < MaxImports
    /\ options' = [options EXCEPT ![PropOrder[i]] = v]
    /\ UNCHANGED <<factory, arg, properties, that, pc, error, last, value, before, ops>>

ImportNext ==
    \/ \E i \in 1..Len(PropOrder) : \E v \in ImportValues(PropOrder[i]) : SupplyImport(i, v)
    \/ CallKey

ImportSpec == Init /\ [][ImportNext]_vars

\* The calls whose keys the accessor operations are explored on: a factory variant
\* with no options, and Key() with no property or a single one.
SeedCalls ==
    {[factory |-> "Key", arg |-> undefinedPair, options |-> NoProperties]}
    \cup UNION {{[factory |-> "Key", arg |-> undefinedPair,
                  options |-> [NoProperties EXCEPT ![name] = v]] : v \in InputValues(name)} :
                name \in PropNames}
    \cup {[factory |-> "PrivateKey", arg |-> a, options |-> NoProperties] : a \in PrivateKeyArgs}
    \cup {[factory |-> "PublicKey", arg |-> a, options |-> NoProperties] : a \in PublicKeyArgs}
    \cup {[factory |-> "SymmetricKey", arg |-> a, options |-> NoProperties] : a \in SymmetricKeyArgs}

\* These calls with the keys they return.
SeedKeys ==
    {k \in {[call |-> c, result |-> Key(FactoryProperties(c.factory, c.arg, c.options))] :
                c \in SeedCalls} : k.result.err = ""}

\* The state in which one of these calls has returned its key.
AccessInit ==
    \E k \in SeedKeys :
        /\ options = k.call.options
        /\ factory = k.call.factory
        /\ arg = k.call.arg
        /\ properties = FactoryProperties(k.call.factory, k.call.arg, k.call.options)
        /\ that = k.result.that
        /\ pc = "key"
        /\ error = ""
        /\ last = NoAccess
        /\ value = undefined
        /\ before = k.result.that
        /\ ops = 0

Read(name) ==
    LET r == Get(that, name)
    IN  /\ pc = "key"
        /\ ops < MaxOps
        /\ last' = [op |-> "get", name |-> name]
        /\ value' = r.value
        /\ error' = r.err
        /\ before' = that
        /\ ops' = ops + 1
        /\ UNCHANGED <<options, factory, arg, properties, that, pc>>

Write(name, v) ==
    LET r == Set(that, name, v)
    IN  /\ pc = "key"
        /\ ops < MaxOps
        /\ last' = [op |-> "set", name |-> name]
        /\ value' = v
        /\ error' = r.err
        /\ before' = that
        /\ that' = r.that
        /\ ops' = ops + 1
        /\ UNCHANGED <<options, factory, arg, properties, pc>>

AccessNext ==
    \/ \E name \in Accessors : Read(name)
    \/ \E name \in WrittenNames : \E v \in WriteValues(name) : Write(name, v)

AccessSpec == AccessInit /\ [][AccessNext]_vars

(***************************************************************************)
(* Properties                                                              *)
(***************************************************************************)
\* The factory was called with no options.
NoOptions == properties = FactoryProperties(factory, arg, NoProperties)

CurveOfLength(n) ==
    CASE n = 32 -> CurveType.p256
      [] n = 48 -> CurveType.p384
      [] n = 66 -> CurveType.p521

\* The byte length the curve is inferred from: that of d when d is present,
\* otherwise that of x when x is present, otherwise -1.
InferenceLength(t) ==
    IF t["d"] # undefinedBytes THEN Len(Base64Decode(t["d"]))
    ELSE IF t["x"] # undefinedBytes THEN Len(Base64Decode(t["x"]))
    ELSE -1

\* C1: for kty = EC and no curve, Key() sets crv from the byte length of d when d is
\* present, otherwise of x when x is present (32 -> P-256, 48 -> P-384, 66 -> P-521);
\* for any other length the construction fails with UnknownCurve.
C1_CurveInferredFromLength ==
    pc # "input" =>
        LET a == Applied(properties)
        IN  (/\ a.err = ""
             /\ a.that["kty"] = KeyType.EC
             /\ a.that["crv"] = undefined
             /\ InferenceLength(a.that) >= 0) =>
                IF InferenceLength(a.that) \in {32, 48, 66}
                THEN pc = "key" => that["crv"] = CurveOfLength(InferenceLength(a.that))
                ELSE pc = "failed" /\ error = "UnknownCurve"

\* C2: every key returned with kty = EC and d present has x and y present; when x or
\* y was absent after the input was applied, they are the coordinates the provider
\* returns for (crv, d).
C2_PublicPointPresent ==
    (pc = "key" /\ that["kty"] = KeyType.EC /\ that["d"] # undefinedBytes) =>
        /\ that["x"] # undefinedBytes
        /\ that["y"] # undefinedBytes
        /\ LET a == Applied(properties).that
               point == DerivePublicPoint(that["crv"], Base64Decode(that["d"]))
           IN  (a["x"] = undefinedBytes \/ a["y"] = undefinedBytes) =>
                   /\ toArray(Base64Decode(that["x"])) = toArray(point.x)
                   /\ toArray(Base64Decode(that["y"])) = toArray(point.y)

\* C3: reading privateKey on a key whose d is absent fails with MissingField.
C3_PrivateKeyMissingField ==
    (last = [op |-> "get", name |-> "privateKey"] /\ that["d"] = undefinedBytes) =>
        error = "MissingField"

\* C4: reading publicKey on a key in which x or y is absent fails with MissingField.
C4_PublicKeyMissingField ==
    (/\ last = [op |-> "get", name |-> "publicKey"]
     /\ (that["x"] = undefinedBytes \/ that["y"] = undefinedBytes)) =>
        error = "MissingField"

\* C5: reading keyPair returns {publicKey: 04||x||y, privateKey: bytes of d} when d,
\* x and y are all present, and fails with MissingField otherwise.
C5_KeyPairCompleteOrMissingField ==
    last = [op |-> "get", name |-> "keyPair"] =>
        IF that["d"] # undefinedBytes /\ that["x"] # undefinedBytes /\ that["y"] # undefinedBytes
        THEN /\ error = ""
             /\ value = [publicKey |-> <<4>> \o Base64Decode(that["x"]) \o Base64Decode(that["y"]),
                         privateKey |-> Base64Decode(that["d"])]
        ELSE error = "MissingField"

\* C6 as stated: SymmetricKey(raw) with no options returns a key with kty = oct whose
\* k is the base64url encoding of raw.
C6_SymmetricKeySetsK ==
    (factory = "SymmetricKey" /\ NoOptions /\ pc # "input") =>
        /\ pc = "key"
        /\ that["kty"] = KeyType.oct
        /\ that["k"] = Base64Encode(arg.privateKey)

\* C6 amended: SymmetricKey(raw) with no options returns a key with kty = oct whose d
\* is the base64url encoding of raw; k stays absent.
C6_SymmetricKeySetsD ==
    (factory = "SymmetricKey" /\ NoOptions /\ pc # "input") =>
        /\ pc = "key"
        /\ that["kty"] = KeyType.oct
        /\ that["d"] = Base64Encode(arg.privateKey)
        /\ that["k"] = undefinedBytes

C6_Witness ==
    /\ factory = "SymmetricKey" /\ NoOptions /\ pc = "key"
    /\ arg.privateKey = Scalar32
    /\ that["d"] = EncodedScalar32

\* The base JWK fields the data model lists.
DataModelFields ==
    {"kty", "crv", "d", "x", "y", "k", "alg", "key_ops", "ext",
     "n", "e", "p", "q", "dp", "dq", "qi", "oth"}

\* The properties whose construction step, after the copy of the base fields, can
\* write field f.
Writers(f) ==
    CASE f = "alg" -> {"algorithm"}
      [] f = "key_ops" -> {"operations"}
      [] f = "ext" -> {"extractable"}
      [] f = "kty" -> {"type", "publicBits", "keyPairBits", "publicKey", "keyPair"}
      [] f = "crv" -> {"curve", "publicBits", "keyPairBits", "publicKey", "keyPair"}
      [] f = "d" -> {"private", "privateBits", "privateKey", "keyPairBits", "keyPair"}
      [] f = "x" -> {"xBits", "publicBits", "keyPairBits", "publicKey", "keyPair"}
      [] f = "y" -> {"yBits", "publicBits", "keyPairBits", "publicKey", "keyPair"}
      [] OTHER -> {}

\* No step after the copy of the base fields writes field f: no property that
\* targets it is supplied, and the closing EC step (crv, x, y) does not run.
NotOverwritten(f) ==
    /\ \A w \in Writers(f) : properties[w] = Undef(w)
    /\ f \in {"crv", "x", "y"} => that["kty"] # KeyType.EC

\* C7: every base JWK field supplied in the input that no later step overwrites is
\* on the returned key with the value it had in the input.
C7_BaseFieldsCopied ==
    pc = "key" =>
        \A f \in DataModelFields :
            (properties[f] # Undef(f) /\ NotOverwritten(f)) => that[f] = properties[f]

\* The six human aliases and their base fields.
HumanAliasPairs ==
    {<<"algorithm", "alg">>, <<"curve", "crv">>, <<"type", "kty">>,
     <<"operations", "key_ops">>, <<"private", "d">>, <<"extractable", "ext">>}

\* C8: after construction and after any writes through a human alias or its base
\* field, reading each of the six human aliases returns the value of its base field;
\* a write through the alias is a write of the base field and of nothing else.
C8_HumanAliasConsistent ==
    \A pair \in HumanAliasPairs :
        /\ Get(that, pair[1]) = Return(that[pair[2]])
        /\ last = [op |-> "get", name |-> pair[1]] => error = "" /\ value = that[pair[2]]
        /\ last = [op |-> "set", name |-> pair[1]] =>
                /\ error = ""
                /\ that[pair[2]] = value
                /\ \A f \in Fields \ {pair[2]} : that[f] = before[f]
        /\ last = [op |-> "set", name |-> pair[2]] => Get(that, pair[1]) = Return(value)

C8_Witness ==
    /\ last = [op |-> "set", name |-> "curve"]
    /\ value = "P-384"
    /\ before["crv"] # "P-384"
    /\ that["crv"] = "P-384"

\* The three binary aliases and their base fields.
BinaryAliasPairs == {<<"privateBits", "d">>, <<"xBits", "x">>, <<"yBits", "y">>}

\* C9: writing a byte sequence b to a binary alias makes the base field the unpadded
\* base64url encoding of b (4 characters per 3 bytes, rounded up per byte, none of
\* them padding), and reading the alias then returns b; after a write of a base64url
\* string s to the base field the alias reads decode(s).
C9_BinaryAliasRoundTrip ==
    \A pair \in BinaryAliasPairs :
        /\ (last = [op |-> "set", name |-> pair[1]] /\ value # undefinedBytes) =>
                /\ error = ""
                /\ that[pair[2]] = Base64Encode(value)
                /\ \A i \in 1..Len(that[pair[2]]) : that[pair[2]][i] \in 0..63
                /\ Len(that[pair[2]]) = (4 * Len(value) + 2) \div 3
                /\ Get(that, pair[1]) = Return(value)
        /\ (/\ last.op = "set"
            /\ last.name \in {pair[2]} \cup {a \in DOMAIN Aliases : Aliases[a] = pair[2]}
            /\ value # undefinedBytes) =>
                Get(that, pair[1]) = Return(Base64Decode(value))

C9_Witness ==
    /\ last = [op |-> "set", name |-> "xBits"]
    /\ value = <<0, 255>>
    /\ Len(that["x"]) = 3
    /\ Get(that, "xBits") = Return(<<0, 255>>)

\* The private half and the public point that the asserted aliases apply last:
\* keyPair is applied after privateKey and publicKey.
LastPrivate(p) ==
    IF p["keyPair"] # undefinedPair THEN p["keyPair"].privateKey ELSE p["privateKey"]

LastPublic(p) ==
    IF p["keyPair"] # undefinedPair THEN p["keyPair"].publicKey ELSE p["publicKey"]

Alone(p, name) ==
    Set([EmptyKey EXCEPT !["crv"] = CurveType.p256], name, p[name])

\* The last name of the sequence `names` that p supplies, "" when it supplies none.
RECURSIVE LastSupplied(_, _)
LastSupplied(p, names) ==
    IF names = <<>> THEN ""
    ELSE IF p[names[Len(names)]] # Undef(names[Len(names)]) THEN names[Len(names)]
    ELSE LastSupplied(p, SubSeq(names, 1, Len(names) - 1))

\* The steps that write field f, in the order of the claim: base field, human alias,
\* binary alias, then sec1, pkcs8, spki, publicBits, keyPairBits.  publicBits and
\* keyPairBits write crv only when the key has none, so they are not listed for crv.
StepsWriting(f) ==
    CASE f = "kty" -> <<"kty", "type", "sec1", "pkcs8", "spki", "publicBits", "keyPairBits">>
      [] f = "crv" -> <<"crv", "curve", "sec1", "pkcs8", "spki">>
      [] f = "d" -> <<"d", "private", "privateBits", "sec1", "pkcs8", "keyPairBits">>
      [] f = "x" -> <<"x", "xBits", "spki", "publicBits", "keyPairBits">>
      [] f = "y" -> <<"y", "yBits", "spki", "publicBits", "keyPairBits">>

\* The first of sec1, pkcs8, spki that p supplies and that fails, "" when none does.
FirstFailingDer(p) ==
    IF p["sec1"] # undefinedBytes /\ Alone(p, "sec1").err # "" THEN "sec1"
    ELSE IF p["pkcs8"] # undefinedBytes /\ Alone(p, "pkcs8").err # "" THEN "pkcs8"
    ELSE IF p["spki"] # undefinedBytes /\ Alone(p, "spki").err # "" THEN "spki"
    ELSE ""

\* C11: Key() runs the importers that have an input in the order sec1, pkcs8, spki,
\* publicBits, keyPairBits, after the base fields, human aliases and binary aliases:
\* each of kty, crv, d, x, y holds, before the asserted aliases are applied, the value
\* written by the last step in this order that writes it, and the first importer in
\* this order that fails decides the error.
C11_ImportersInOrder ==
    pc # "input" =>
        LET imported == Imported(properties)
        IN  /\ imported.err = "" =>
                \A f \in {"kty", "crv", "d", "x", "y"} :
                    LET step == LastSupplied(properties, StepsWriting(f))
                    IN  step # "" => imported.that[f] = Alone(properties, step).that[f]
            /\ (imported.err = "" /\ pc = "key") =>
                    that["d"] = imported.that["d"] /\ that["kty"] = imported.that["kty"]
            /\ FirstFailingDer(properties) # "" =>
                    /\ pc = "failed"
                    /\ error = Alone(properties, FirstFailingDer(properties)).err

C11_Witness ==
    /\ pc = "key"
    /\ properties["sec1"] # undefinedBytes
    /\ properties["pkcs8"] # undefinedBytes
    /\ Alone(properties, "sec1").that["crv"] = CurveType.p384
    /\ Base64Decode(Alone(properties, "sec1").that["d"]) = DerScalar
    /\ that["crv"] = CurveType.p256
    /\ Base64Decode(that["d"]) = <<8, 9>>

\* The raw public point is the only importer with an input.
RawPointOnly(p) ==
    /\ p["publicBits"] # undefinedBytes
    /\ p["sec1"] = undefinedBytes
    /\ p["pkcs8"] = undefinedBytes
    /\ p["spki"] = undefinedBytes
    /\ p["keyPairBits"] = undefinedPair

\* C12: importing a raw public point fails with BadFormat for every input of even
\* length (the empty input included) whatever its first byte, with
\* UnsupportedCompression for an input of odd length whose first byte is 2 or 3, and
\* with BadFormat for an input of odd length whose first byte is 5.
C12_RawPointErrors ==
    (pc # "input" /\ RawPointOnly(properties)) =>
        LET input == properties["publicBits"]
        IN  /\ Len(input) % 2 = 0 => pc = "failed" /\ error = "BadFormat"
            /\ (Len(input) % 2 = 1 /\ input[1] \in {2, 3}) =>
                    pc = "failed" /\ error = "UnsupportedCompression"
            /\ (Len(input) % 2 = 1 /\ input[1] = 5) => pc = "failed" /\ error = "BadFormat"

C12_Witness ==
    /\ pc = "failed"
    /\ RawPointOnly(properties)
    /\ properties["publicBits"] = <<2, 1>>
    /\ error = "BadFormat"

\* C13: a raw public point 04 || X || Y with |X| = |Y| = L, L in {32, 48, 66},
\* imported into a key with no curve leaves kty = EC, crv the curve of length L,
\* xBits = X, yBits = Y, and publicBits reads the input.
C13_RawPointImported ==
    (/\ pc # "input"
     /\ RawPointOnly(properties)
     /\ properties["crv"] = undefined
     /\ properties["curve"] = undefined) =>
        LET input == properties["publicBits"]
            L == (Len(input) - 1) \div 2
        IN  (Len(input) % 2 = 1 /\ input[1] = 4 /\ L \in {32, 48, 66}) =>
                /\ pc = "key"
                /\ that["kty"] = KeyType.EC
                /\ that["crv"] = CurveOfLength(L)
                /\ Get(that, "xBits") = Return(Slice(input, 1, L + 1))
                /\ Get(that, "yBits") = Return(Slice(input, L + 1, Len(input)))
                /\ Get(that, "publicBits") = Return(input)

C13_Witness ==
    /\ pc = "key"
    /\ RawPointOnly(properties)
    /\ properties["crv"] = undefined
    /\ properties["publicBits"] = Point48
    /\ that["crv"] = CurveType.p384
    /\ Get(that, "xBits") = Return(X48)

\* C14: the raw public point importer accepts an input only if its first byte is 4;
\* every other input makes the import fail.
C14_OnlyUncompressedAccepted ==
    (/\ pc # "input"
     /\ RawPointOnly(properties)
     /\ (properties["publicBits"] = <<>> \/ properties["publicBits"][1] # 4)) =>
        pc = "failed"

\* The curve an object identifier names in the standard table, undefined for any
\* other identifier.
StandardCurve(oid) ==
    CASE oid = OidPrime256v1 -> CurveType.p256
      [] oid = OidSecp384r1 -> CurveType.p384
      [] oid = OidSecp521r1 -> CurveType.p521
      [] OTHER -> undefined

\* The node is an object identifier (of more than one content byte, as the source
\* requires of an object it does not report missing).
IsObjectID(node) == node.tag = DerType.ObjectIdentifier /\ Len(node.bytes) > 1

\* The node is an integer of one byte equal to version.
IsVersion(node, version) == node.tag = DerType.UnsignedInt /\ node.bytes = <<version>>

\* sec1 is the only importer with an input.
Sec1Only(p) ==
    /\ p["sec1"] # undefinedBytes
    /\ p["pkcs8"] = undefinedBytes
    /\ p["spki"] = undefinedBytes
    /\ p["publicBits"] = undefinedBytes
    /\ p["keyPairBits"] = undefinedPair

\* C15: a SEC1 import fails with BadVersion when the first element is not a one-byte
\* integer equal to 1, fails with UnknownCurve when the version is 1 and the curve
\* identifier is not that of a supported curve, and with version, curve and private
\* octet string valid sets kty = EC, crv to the curve the identifier names and d to
\* the private scalar.
C15_Sec1Import ==
    (pc # "input" /\ Sec1Only(properties)) =>
        LET root == DerDecode(properties["sec1"]).node
            version == Element(root, 0)
            key == Element(root, 1)
            curve == Element(Element(root, 2), 0)
        IN  /\ ~IsVersion(version, 1) => pc = "failed" /\ error = "BadVersion"
            /\ (/\ IsVersion(version, 1)
                /\ IsObjectID(curve)
                /\ StandardCurve(curve.bytes) = undefined) =>
                    pc = "failed" /\ error = "UnknownCurve"
            /\ (/\ IsVersion(version, 1)
                /\ IsObjectID(curve)
                /\ StandardCurve(curve.bytes) # undefined
                /\ key.tag = DerType.OctetString
                /\ Len(key.bytes) > 1) =>
                    /\ pc = "key"
                    /\ that["kty"] = KeyType.EC
                    /\ that["crv"] = StandardCurve(curve.bytes)
                    /\ that["d"] = Base64Encode(key.bytes)

\* The curve identifier of the DER input of importer `name`.
CurveNode(p, name) ==
    LET root == DerDecode(p[name]).node
    IN  CASE name = "sec1" -> Element(Element(root, 2), 0)
          [] name = "pkcs8" -> Element(Element(root, 1), 1)
          [] name = "spki" -> Element(Element(root, 0), 1)

\* C16: the curve lookup of the SEC1, PKCS#8 and SPKI importers accepts the standard
\* identifiers of the three curves: an input whose curve identifier is 2a8648ce3d030107,
\* 2b81040022 or 2b81040023 is not refused as an unknown curve, and the key returned
\* for it has the curve P-256, P-384 or P-521.
C16_StandardOidsAccepted ==
    pc # "input" =>
        \A name \in {"sec1", "pkcs8", "spki"} :
            (/\ properties[name] # undefinedBytes
             /\ \A other \in {"sec1", "pkcs8", "spki"} \ {name} :
                    properties[other] = undefinedBytes
             /\ StandardCurve(CurveNode(properties, name).bytes) # undefined) =>
                /\ error # "UnknownCurve"
                /\ pc = "key" => that["crv"] = StandardCurve(CurveNode(properties, name).bytes)

\* C17: a PKCS#8 import fails with BadVersion when its version is not 0, and otherwise
\* with UnsupportedAlgorithm when its algorithm identifier is there and is not
\* ecPublicKey, whatever the curve identifier and the wrapped key are; the curve is
\* looked up after the algorithm and before the wrapped key.
C17_Pkcs8ChecksInOrder ==
    (/\ pc # "input"
     /\ properties["pkcs8"] # undefinedBytes
     /\ properties["sec1"] = undefinedBytes) =>
        LET root == DerDecode(properties["pkcs8"]).node
            version == Element(root, 0)
            algorithm == Element(Element(root, 1), 0)
            curve == Element(Element(root, 1), 1)
        IN  /\ ~IsVersion(version, 0) => pc = "failed" /\ error = "BadVersion"
            /\ (/\ IsVersion(version, 0)
                /\ IsObjectID(algorithm)
                /\ algorithm.bytes # OidEcPublicKey) =>
                    pc = "failed" /\ error = "UnsupportedAlgorithm"
            /\ (/\ IsVersion(version, 0)
                /\ algorithm.bytes = OidEcPublicKey
                /\ curve.bytes = OidRsaEncryption) =>
                    pc = "failed" /\ error = "UnknownCurve"

C17_Witness ==
    /\ pc = "failed"
    /\ properties["pkcs8"] = Pkcs8DerNoKey(<<0>>, OidRsaEncryption, OidShort)
    /\ error = "UnsupportedAlgorithm"

\* C18: a successful SPKI import sets kty = EC, crv to the curve of the second
\* identifier of the AlgorithmIdentifier, replacing a curve given explicitly, and x
\* and y to the two halves of the point in the BIT STRING; an algorithm identifier
\* other than ecPublicKey makes the import fail before anything is written.
C18_SpkiImport ==
    (/\ pc # "input"
     /\ properties["spki"] # undefinedBytes
     /\ properties["sec1"] = undefinedBytes
     /\ properties["pkcs8"] = undefinedBytes) =>
        LET root == DerDecode(properties["spki"]).node
            algorithm == Element(Element(root, 0), 0)
            curve == Element(Element(root, 0), 1)
            point == Element(root, 1).bytes
            n == (Len(point) - 1) \div 2
            earlier == assignAll(assignAll(Ok(CopyBase(properties)), properties, AliasOrder),
                                 properties, CodecOrder).that
        IN  /\ algorithm.bytes # OidEcPublicKey =>
                    /\ pc = "failed"
                    /\ Set(earlier, "spki", properties["spki"]).that = earlier
            /\ (/\ pc = "key"
                /\ properties["publicBits"] = undefinedBytes
                /\ properties["keyPairBits"] = undefinedPair) =>
                    /\ algorithm.bytes = OidEcPublicKey
                    /\ that["kty"] = KeyType.EC
                    /\ that["crv"] = CurveLookup(toHex(curve.bytes))
                    /\ that["x"] = Base64Encode(Slice(point, 1, n + 1))
                    /\ that["y"] = Base64Encode(Slice(point, n + 1, Len(point)))

C18_Witness ==
    /\ pc = "key"
    /\ properties["spki"] = SpkiDer(OidEcPublicKey, OidPrime256v1, Point32)
    /\ properties["crv"] = CurveType.p384
    /\ that["crv"] = CurveType.p256
    /\ that["x"] = EncodedX32
    /\ that["y"] = EncodedY32

\* The key has its x and y from the derivation: after the input was applied it is an
\* EC key with d and without x or y.
PointDerived ==
    LET a == Applied(properties).that
    IN  /\ pc = "key"
        /\ that["kty"] = KeyType.EC
        /\ TruthyBase64(that["d"])
        /\ (~TruthyBase64(a["x"]) \/ ~TruthyBase64(a["y"]))

\* C19: the x and y installed by the derivation of the public point from d each
\* have exactly the field size of the curve in bytes (32, 48, 66), with zero bytes
\* on the left when the value of the coordinate needs fewer.
C19_DerivedCoordinateWidth ==
    PointDerived =>
        /\ Len(Base64Decode(that["x"])) = FieldSize(that["crv"])
        /\ Len(Base64Decode(that["y"])) = FieldSize(that["crv"])

ECComplete(t) ==
    (t["kty"] = KeyType.EC /\ t["d"] # undefinedBytes) =>
        /\ t["crv"] # undefined
        /\ t["x"] # undefinedBytes
        /\ t["y"] # undefinedBytes

\* C21: a write through a human or binary alias on a key that has kty = EC and d
\* only together with crv, x and y leaves a key of which the same is true.
C21_WritesKeepECComplete ==
    (/\ last.op = "set"
     /\ last.name \in (DOMAIN Aliases) \cup (DOMAIN Base64Codecs)
     /\ ECComplete(before)) =>
        ECComplete(that)

\* PrivateKey(input) was called with no options and returned a key.
PrivateKeyReturned ==
    pc = "key" /\ factory = "PrivateKey" /\ options = NoProperties

\* The two halves of an uncompressed point.
HalfX(point) == Slice(point, 1, (Len(point) - 1) \div 2 + 1)

HalfY(point) == Slice(point, (Len(point) - 1) \div 2 + 1, Len(point))

\* C22: PrivateKey(input) with no options returns a key with kty = EC; for a bare
\* scalar d is the scalar and x, y are the derived point; for a pair d is
\* pair.privateKey and x, y are the halves of pair.publicKey, the provider not
\* being called.
C22_PrivateKeyFactory ==
    PrivateKeyReturned =>
        /\ that["kty"] = KeyType.EC
        /\ that["d"] = Base64Encode(arg.privateKey)
        /\ arg.publicKey = undefinedBytes =>
                LET point == DerivePublicPoint(that["crv"], arg.privateKey)
                IN  /\ that["x"] # undefinedBytes
                    /\ that["y"] # undefinedBytes
                    /\ toArray(Base64Decode(that["x"])) = toArray(point.x)
                    /\ toArray(Base64Decode(that["y"])) = toArray(point.y)
        /\ arg.publicKey # undefinedBytes =>
                /\ that["x"] = Base64Encode(HalfX(arg.publicKey))
                /\ that["y"] = Base64Encode(HalfY(arg.publicKey))

\* The kinds of the key module's error category.
KeyErrorKinds ==
    {"BadVersion", "UnsupportedAlgorithm", "UnknownCurve", "UnsupportedCompression",
     "BadFormat", "MissingField", "BadScalar"}

\* C23: a failing key construction, with the importer assignments it makes, is
\* signalled with a KeyError of one of the listed kinds, never with the generic
\* MatterError or a runtime TypeError.
C23_OnlyKeyErrors ==
    pc = "failed" => error \notin {"MatterError", "TypeError"}

\* The importers, and the base fields they write.
ImporterNames == {"sec1", "pkcs8", "spki", "publicBits", "keyPairBits"}

ImportedFields == {"kty", "crv", "d", "x", "y"}

\* C24: when an assignment to sec1, pkcs8, spki, publicBits or keyPairBits on a key
\* fails, kty, crv, d, x and y have the values they had before it; and a Key() that
\* fails returns no key.
C24_FailedImportWritesNothing ==
    /\ (last.op = "set" /\ last.name \in ImporterNames /\ error # "") =>
            \A f \in ImportedFields : that[f] = before[f]
    /\ pc = "failed" => that = EmptyKey

\* Key() was called with a curve in crv and with no property that writes crv:
\* the alias curve and the DER importers.
CurveGiven(p) ==
    /\ Truthy(p["crv"])
    /\ p["curve"] = undefined
    /\ p["sec1"] = undefinedBytes
    /\ p["pkcs8"] = undefinedBytes
    /\ p["spki"] = undefinedBytes

\* C25: curve inference leaves a curve that is set as it is and does not fail,
\* whatever the length of d or of the public point: a Key() given a curve does not
\* fail with UnknownCurve, and the key it returns has the curve given.
C25_CurveNeverReinferred ==
    (pc # "input" /\ CurveGiven(properties)) =>
        /\ error # "UnknownCurve"
        /\ pc = "key" => that["crv"] = properties["crv"]

\* A key is returned whose coordinates do not have the length of its curve.
C25_Witness ==
    /\ pc = "key"
    /\ properties["crv"] = CurveType.p384
    /\ properties["publicBits"] = Point32
    /\ that["crv"] = CurveType.p384
    /\ Len(Base64Decode(that["x"])) = 32

\* C26 as stated: the public point of every returned EC key with d is the point the
\* provider derives from (crv, d), also when x and y were supplied.
C26_PointMatchesScalar ==
    (pc = "key" /\ that["kty"] = KeyType.EC /\ that["d"] # undefinedBytes) =>
        /\ that["crv"] \in {CurveType.p256, CurveType.p384, CurveType.p521}
        /\ that["x"] # undefinedBytes
        /\ that["y"] # undefinedBytes
        /\ LET point == DerivePublicPoint(that["crv"], Base64Decode(that["d"]))
           IN  /\ point.err = ""
               /\ toArray(Base64Decode(that["x"])) = toArray(point.x)
               /\ toArray(Base64Decode(that["y"])) = toArray(point.y)

\* C26: a returned EC key with a non-empty d holds the point the provider derives
\* from (crv, d) when x or y was absent after the input was applied; x and y that the
\* input supplied are kept as supplied, whatever d is.
C26_PointDerivedOrSupplied ==
    (pc = "key" /\ that["kty"] = KeyType.EC /\ TruthyBase64(that["d"])) =>
        LET a == Applied(properties).that
            point == DerivePublicPoint(that["crv"], Base64Decode(that["d"]))
        IN  IF ~TruthyBase64(a["x"]) \/ ~TruthyBase64(a["y"])
            THEN /\ toArray(Base64Decode(that["x"])) = toArray(point.x)
                 /\ toArray(Base64Decode(that["y"])) = toArray(point.y)
            ELSE /\ that["x"] = a["x"]
                 /\ that["y"] = a["y"]

\* A pair whose public half is not the point of its private half is returned as it is.
C26_Witness ==
    /\ pc = "key"
    /\ factory = "PrivateKey"
    /\ arg = [publicKey |-> Point48, privateKey |-> Scalar32]
    /\ that["x"] = Base64Encode(X48)
    /\ that["d"] = EncodedScalar32
    /\ DerivePublicPoint(that["crv"], Scalar32).x # X48

====
